---- MODULE Spec2Model ----
(***************************************************************************)
(* Model of password_strength.c: the character predicates, the Strong and  *)
(* Default policies, the default-password generator and the interactive    *)
(* session of main.                                                        *)
(*                                                                         *)
(* Characters are ASCII codes.  A C string lives in a buffer and ends at    *)
(* its first 0.  A buffer of size bytes is kept as the cells stored to so  *)
(* far (indices 0..Len(cells)-1) and the byte every other cell still holds.*)
(***************************************************************************)
EXTENDS Integers, Sequences, FiniteSets, TLC

VARIABLES pc, username, default_password, customPassword, choice, out,
          written, drawn, ret

vars == <<pc, username, default_password, customPassword, choice, out,
          written, drawn, ret>>

(***************************************************************************)
(* Bounds of the inputs the model enumerates.                              *)
(***************************************************************************)
MaxCore == 3
MaxUser == 2
MaxPeriod == 3

(***************************************************************************)
(* Program constants.                                                      *)
(***************************************************************************)
UsernameSize == 100
DefaultSize == 16
CustomSize == 100
ChoiceSize == 3
MinLength == 8
MaxDefaultLength == 15
RunLength == 4
LengthModulus == 15

(***************************************************************************)
(* <ctype.h> in the C locale, on ASCII codes.                              *)
(***************************************************************************)
isupper(c) == c >= 65 /\ c <= 90
islower(c) == c >= 97 /\ c <= 122
isdigit(c) == c >= 48 /\ c <= 57
isalpha(c) == isupper(c) \/ islower(c)
isalnum(c) == isalpha(c) \/ isdigit(c)
tolower(c) == IF isupper(c) THEN c + 32 ELSE c

(***************************************************************************)
(* Strings and buffers.                                                    *)
(***************************************************************************)
\* buf[k], for k inside the buffer.
At(buf, k) == IF k < Len(buf.cells) THEN buf.cells[k + 1] ELSE buf.fill

InBuffer(buf, k) == k >= 0 /\ k < buf.size

RECURSIVE strlenFrom(_, _)
strlenFrom(s, i) == IF At(s, i) = 0 THEN i ELSE strlenFrom(s, i + 1)

strlen(s) == strlenFrom(s, 0)

\* The string a buffer holds, as a sequence of codes.
Str(s) == [k \in 1..strlen(s) |-> At(s, k - 1)]

Rep(c, n) == [k \in 1..n |-> c]

SetMax(S) == CHOOSE x \in S : \A y \in S : y <= x

\* A buffer without the cells at its end that hold the fill byte: each
\* content of the memory is kept in one form.
Trimmed(buf) ==
    LET used == {k \in 1..Len(buf.cells) : buf.cells[k] # buf.fill}
    IN  [buf EXCEPT !.cells = SubSeq(buf.cells, 1, SetMax(used \cup {0}))]

\* A buffer of the given size holding s, its terminator, then tail, then 0s.
Buf(s, tail, size) == Trimmed([size |-> size, fill |-> 0, cells |-> s \o <<0>> \o tail])

strcmpEqual(s, t) == Str(s) = t

SeqsUpTo(S, n) == UNION {[1..k -> S] : k \in 0..n}

(***************************************************************************)
(* containsString: 4 consecutive letters.                                  *)
(***************************************************************************)
RECURSIVE containsStringFrom(_, _, _)
containsStringFrom(pwd, i, consecutiveLetters) ==
    IF At(pwd, i) = 0 THEN FALSE
    ELSE IF isalpha(At(pwd, i))
         THEN IF consecutiveLetters + 1 >= RunLength THEN TRUE
              ELSE containsStringFrom(pwd, i + 1, consecutiveLetters + 1)
         ELSE containsStringFrom(pwd, i + 1, 0)

\* The loop without the reset of the counter on a non-letter.
RECURSIVE containsStringNoResetFrom(_, _, _)
containsStringNoResetFrom(pwd, i, consecutiveLetters) ==
    IF At(pwd, i) = 0 THEN FALSE
    ELSE IF isalpha(At(pwd, i))
         THEN IF consecutiveLetters + 1 >= RunLength THEN TRUE
              ELSE containsStringNoResetFrom(pwd, i + 1, consecutiveLetters + 1)
         ELSE containsStringNoResetFrom(pwd, i + 1, consecutiveLetters)

containsStringNoReset(pwd) == containsStringNoResetFrom(pwd, 0, 0)

containsString(pwd) == containsStringFrom(pwd, 0, 0)

RECURSIVE hasUpperFrom(_, _)
hasUpperFrom(pwd, i) ==
    IF At(pwd, i) = 0 THEN FALSE
    ELSE IF isupper(At(pwd, i)) THEN TRUE ELSE hasUpperFrom(pwd, i + 1)

hasUpper(pwd) == hasUpperFrom(pwd, 0)

RECURSIVE hasDigitFrom(_, _)
hasDigitFrom(pwd, i) ==
    IF At(pwd, i) = 0 THEN FALSE
    ELSE IF isdigit(At(pwd, i)) THEN TRUE ELSE hasDigitFrom(pwd, i + 1)

hasDigit(pwd) == hasDigitFrom(pwd, 0)

RECURSIVE hasLowerFrom(_, _)
hasLowerFrom(pwd, i) ==
    IF At(pwd, i) = 0 THEN FALSE
    ELSE IF islower(At(pwd, i)) THEN TRUE ELSE hasLowerFrom(pwd, i + 1)

hasLower(pwd) == hasLowerFrom(pwd, 0)

hasMinimumLength(pwd) == strlen(pwd) >= MinLength

RECURSIVE isAlphanumericOnlyFrom(_, _)
isAlphanumericOnlyFrom(pwd, i) ==
    IF At(pwd, i) = 0 THEN TRUE
    ELSE IF ~isalnum(At(pwd, i)) THEN FALSE ELSE isAlphanumericOnlyFrom(pwd, i + 1)

isAlphanumericOnly(pwd) == isAlphanumericOnlyFrom(pwd, 0)

(***************************************************************************)
(* containsUsername.  The loop bound strlen(password) - strlen(username)   *)
(* is computed in size_t: when the username is the longer one it wraps to  *)
(* SIZE_MAX + 1 - (ulen - plen), which no int i reaches, so the condition  *)
(* i <= bound is then true of every i the loop can hold.                   *)
(***************************************************************************)
LoopCondLenient(i, plen, ulen) == IF plen >= ulen THEN i < plen - ulen ELSE TRUE

LoopCond(i, plen, ulen) == IF plen >= ulen THEN i <= plen - ulen ELSE TRUE

\* The inner loop: the first j at which password[i + j] and username[j]
\* differ after tolower, ulen = strlen(username) when none does.  It stops at
\* a j whose read password[i + j] would leave the password's buffer.
RECURSIVE matchFrom(_, _, _, _, _)
matchFrom(usr, password, ulen, i, j) ==
    IF j >= ulen THEN j
    ELSE IF ~InBuffer(password, i + j) THEN j
    ELSE IF tolower(At(password, i + j)) # tolower(At(usr, j)) THEN j
    ELSE matchFrom(usr, password, ulen, i, j + 1)

Max(a, b) == IF a >= b THEN a ELSE b

\* One pass of the outer loop at offset i, with ulen = strlen(username) and
\* plen = strlen(password): "false" when the loop condition fails, "true"
\* when the inner loop ran to ulen, "oob" when it read past the end of the
\* buffer, "continue" when it broke on a mismatch and the loop goes on.
passAt(usr, password, ulen, plen, i) ==
    IF ~LoopCond(i, plen, ulen) THEN "false"
    ELSE LET j == matchFrom(usr, password, ulen, i, 0)
         IN  IF j = ulen THEN "true"
             ELSE IF ~InBuffer(password, i + j) THEN "oob"
             ELSE "continue"

\* The highest index the pass at offset i reads through password[i + j].
topAt(usr, password, ulen, i) ==
    LET j == matchFrom(usr, password, ulen, i, 0)
    IN  IF j = ulen THEN i + j - 1 ELSE i + j

SetMin(S) == CHOOSE x \in S : \A y \in S : x <= y

\* The outer loop, i = 0, 1, ...: it ends at the first offset whose pass does
\* not continue.  There is one: the loop condition fails at plen - ulen + 1
\* when the username is not the longer one, and the pass at the offset just
\* past the buffer reads outside it.  hi is the highest index of password
\* read through password[i + j] (-1: none).
scanFrom(usr, password, ulen, plen) ==
    LET offsets == IF plen >= ulen THEN 0..(plen - ulen + 1)
                   ELSE 0..password.size
        last == SetMin({i \in offsets :
                          passAt(usr, password, ulen, plen, i) # "continue"})
        kind == passAt(usr, password, ulen, plen, last)
        passes == IF kind = "false" THEN 0..(last - 1) ELSE 0..last
    IN  [ret |-> kind,
         hi |-> SetMax({-1} \cup {topAt(usr, password, ulen, i) : i \in passes})]

containsUsernameScan(usr, password) ==
    IF strlen(usr) = 0 THEN [ret |-> "false", hi |-> -1]
    ELSE scanFrom(usr, password, strlen(usr), strlen(password))

\* What a call can produce.  A scan that leaves the buffer goes on through
\* the memory behind it: it finds a match there and returns true, or faults.
containsUsername(usr, password) ==
    LET r == containsUsernameScan(usr, password)
    IN  IF r.ret = "oob" THEN {"true", "crash"} ELSE {r.ret}

(***************************************************************************)
(* The two policies.                                                       *)
(***************************************************************************)
isStrongPassword(usr, password) ==
    IF ~hasMinimumLength(password) THEN {"false"}
    ELSE IF ~hasUpper(password) \/ ~hasLower(password) \/ ~hasDigit(password)
    THEN {"false"}
    ELSE IF ~isAlphanumericOnly(password) THEN {"false"}
    ELSE IF ~containsString(password) THEN {"false"}
    ELSE {IF o = "true" THEN "false" ELSE IF o = "false" THEN "true" ELSE o :
            o \in containsUsername(usr, password)}

isStrongDefaultPasswordOffByOne(usr, password) ==
    IF strlen(password) >= MaxDefaultLength THEN FALSE
    ELSE IF ~hasUpper(password) \/ ~hasLower(password) \/ ~hasDigit(password)
    THEN FALSE
    ELSE IF ~isAlphanumericOnly(password) THEN FALSE
    ELSE TRUE

\* The wrong version that tests isAlphanumericOnly without the negation.
isStrongDefaultPasswordMissingNot(usr, password) ==
    IF strlen(password) > MaxDefaultLength THEN FALSE
    ELSE IF ~hasUpper(password) \/ ~hasLower(password) \/ ~hasDigit(password)
    THEN FALSE
    ELSE IF isAlphanumericOnly(password) THEN FALSE
    ELSE TRUE

isStrongDefaultPassword(usr, password) ==
    IF strlen(password) > MaxDefaultLength THEN FALSE
    ELSE IF ~hasUpper(password) \/ ~hasLower(password) \/ ~hasDigit(password)
    THEN FALSE
    ELSE IF ~isAlphanumericOnly(password) THEN FALSE
    ELSE TRUE

(***************************************************************************)
(* The predicates applied to enumerated arguments.  The password sits in a *)
(* buffer like main's customPassword; what follows its terminator is       *)
(* whatever the buffer held before.                                        *)
(***************************************************************************)
Chars == {97, 65, 49, 33}
PadChars == {97, 49}
PadLens == {0, 3, 5, 12, 13}
UserChars == {97, 65, 49}
LongUserChars == {97, 65}
LongUserLen == MinLength + 1
StaleLens == {0, 10}

\* Passwords around the lengths 8 and 15 the policies test.
Passwords ==
    {core \o Rep(c, n) : core \in SeqsUpTo(Chars, MaxCore),
                         c \in PadChars, n \in PadLens}

\* Passwords tried against every username: the short ones, and those with a
\* run of letters behind them.
UserPasswords ==
    {core \o Rep(97, n) : core \in SeqsUpTo(Chars, MaxCore), n \in {0, 5}}

Usernames ==
    SeqsUpTo(UserChars, MaxUser) \cup {Rep(c, LongUserLen) : c \in LongUserChars}

\* What the password's buffer holds behind the terminator.
Stales == {Rep(65, n) : n \in StaleLens}

PredInputs ==
    {<<u, p, <<>>>> : u \in {<<>>, <<97>>}, p \in Passwords}
      \cup {<<u, p, t>> : u \in Usernames, p \in UserPasswords, t \in Stales}

NoRet == [kind |-> "none"]

PredInit ==
    /\ pc = "call"
    /\ \E in \in PredInputs :
         /\ username = Buf(in[1], <<>>, UsernameSize)
         /\ customPassword = Buf(in[2], in[3], CustomSize)
    /\ default_password = Buf(<<>>, <<>>, DefaultSize)
    /\ choice = Buf(<<>>, <<>>, ChoiceSize)
    /\ out = <<>>
    /\ written = {}
    /\ drawn = <<>>
    /\ ret = NoRet

\* One call of each predicate and policy on the arguments.
Evaluate ==
    /\ pc = "call"
    /\ \E cu \in containsUsername(username, customPassword),
          strong \in isStrongPassword(username, customPassword) :
         ret' = [kind |-> "predicates",
                 containsString |-> containsString(customPassword),
                 hasUpper |-> hasUpper(customPassword),
                 hasLower |-> hasLower(customPassword),
                 hasDigit |-> hasDigit(customPassword),
                 hasMinimumLength |-> hasMinimumLength(customPassword),
                 isAlphanumericOnly |-> isAlphanumericOnly(customPassword),
                 containsUsername |-> cu,
                 hi |-> containsUsernameScan(username, customPassword).hi,
                 isStrongPassword |-> strong,
                 isStrongDefaultPassword |->
                     isStrongDefaultPassword(username, customPassword),
                 isStrongDefaultPasswordEmpty |->
                     isStrongDefaultPassword(Buf(<<>>, <<>>, UsernameSize),
                                             customPassword)]
    /\ pc' = "evaluated"
    /\ UNCHANGED <<username, default_password, customPassword, choice, out,
                   written, drawn>>

PredNext == Evaluate

PredSpec == PredInit /\ [][PredNext]_vars

(***************************************************************************)
(* generateDefaultPassword.                                                *)
(***************************************************************************)
validCharacters ==
    [k \in 1..26 |-> 96 + k] \o [k \in 1..26 |-> 64 + k] \o [k \in 1..10 |-> 47 + k]

numValidChars == Len(validCharacters)

\* Values rand() returns in the model.  Taken modulo 15 and modulo 62 they
\* give: 62 -> length 3, 'a'; 300 -> length 1, '0'; 584 -> length 15, 'A'.
RandValues == {62, 300, 584}

Min(a, b) == IF a <= b THEN a ELSE b

\* The draws for the characters of one pass of the do-while loop: they
\* repeat with period MaxPeriod.
CharDraws(passwordLength) == [0..(Min(passwordLength, MaxPeriod) - 1) -> RandValues]

passwordLengthOf(r) == (r % LengthModulus) + 1

\* The character the loop stores at index i.
charAt(cs, i) == validCharacters[(cs[i % MaxPeriod] % numValidChars) + 1]

\* The wrong version that ends the string at the last index of the buffer
\* instead of at passwordLength.
writesTerminatorAtEnd(passwordLength, cs) ==
    [k \in (0..(passwordLength - 1)) \cup {MaxDefaultLength} |->
        IF k < passwordLength THEN charAt(cs, k) ELSE 0]

\* The wrong version that also ends the buffer at default_password[16].
writesTerminatorPastEnd(passwordLength, cs) ==
    [k \in (0..passwordLength) \cup {DefaultSize} |->
        IF k < passwordLength THEN charAt(cs, k) ELSE 0]

\* The stores of one pass, index |-> value: the characters at
\* 0..passwordLength-1 and the terminator at passwordLength.
writes(passwordLength, cs) ==
    [k \in 0..passwordLength |-> IF k < passwordLength THEN charAt(cs, k) ELSE 0]

\* The cells of a buffer after the stores ws, index |-> value (a store
\* outside the buffer leaves it as it is).
StoredCells(buf, ws) ==
    [k \in 1..Max(Len(buf.cells), Min(buf.size, SetMax(DOMAIN ws) + 1)) |->
        IF (k - 1) \in DOMAIN ws THEN ws[k - 1] ELSE At(buf, k - 1)]

\* A buffer after the stores ws.  (The sets of one element make TLC compute
\* ws and the cells once, not at each use.)
Stored(buf, ws) ==
    CHOOSE b \in {Trimmed([buf EXCEPT !.cells = c]) :
                    c \in {StoredCells(buf, w) : w \in {ws}}} : TRUE

loopAgainInverted(usr, candidate) == isStrongDefaultPassword(usr, candidate)

\* The condition of the do-while loop.
loopAgain(usr, candidate) == ~isStrongDefaultPassword(usr, candidate)

\* One pass of the do-while loop: the draws, the stores, the test.  The
\* characters drawn are recorded in drawn, the indices stored to in written.
Generate ==
    /\ pc = "generate"
    /\ \E r \in RandValues :
         \E cs \in CharDraws(passwordLengthOf(r)) :
           /\ drawn' = [i \in 1..passwordLengthOf(r) |-> charAt(cs, i - 1)]
           /\ \E ws \in {writes(passwordLengthOf(r), cs)} :
                \E candidate \in {Stored(default_password, ws)} :
                  /\ default_password' = candidate
                  /\ written' = written \cup DOMAIN ws
                  /\ pc' = IF loopAgain(username, candidate)
                           THEN "generate" ELSE "generated"
    /\ UNCHANGED <<username, customPassword, choice, out, ret>>

\* A pass whose candidate the Default policy accepts, and one it rejects.
GenerateAccepted == pc' = "generated" /\ Generate

GenerateRejected == pc' = "generate" /\ Generate

\* What an array holds before the program stores to it.
GarbageBytes == {0, 65}

Garbage(g, size) == [size |-> size, fill |-> g, cells |-> <<>>]

GenUsernames == {<<>>, <<97, 65, 49>>}

\* A call of generateDefaultPassword on any username and any buffer.
GenInit ==
    /\ pc = "generate"
    /\ \E u \in GenUsernames : username = Buf(u, <<>>, UsernameSize)
    /\ \E g \in GarbageBytes : default_password = Garbage(g, DefaultSize)
    /\ customPassword = Buf(<<>>, <<>>, CustomSize)
    /\ choice = Buf(<<>>, <<>>, ChoiceSize)
    /\ out = <<>>
    /\ written = {}
    /\ drawn = <<>>
    /\ ret = NoRet

GenNext == Generate

GenSpec == GenInit /\ [][GenNext]_vars

\* A random source that does not avoid the accepted candidates for ever:
\* weak fairness of GenerateAccepted.  WF_vars(GenerateAccepted) is
\* []<>~ENABLED <<GenerateAccepted>>_vars \/ []<><<GenerateAccepted>>_vars; a
\* GenerateAccepted step changes pc and ends where GenerateAccepted is
\* disabled, so the second disjunct implies the first, which is FairSource.
FairSource == []<>(~ENABLED GenerateAccepted)

FairGenSpec == GenSpec /\ FairSource

(***************************************************************************)
(* main and promptForNewPassword: the session.                             *)
(***************************************************************************)
\* scanf("%s", buf) on a word that fits: the word, its terminator, and the
\* rest of the buffer as it was.
scanf(buf, word) ==
    Stored(buf, [k \in 0..Len(word) |-> IF k < Len(word) THEN word[k + 1] ELSE 0])

Message(text, arg) == [text |-> text, arg |-> arg]

\* The wrong version that looks at the first character only.
wantsChangeFirstChar(answer) == At(answer, 0) = 121 \/ At(answer, 0) = 89

\* strcmp(choice, "y") == 0 || strcmp(choice, "Y") == 0
wantsChange(answer) == strcmpEqual(answer, <<121>>) \/ strcmpEqual(answer, <<89>>)

\* The words the user types: "11", "aaaaaaaaa" as username; "y", "Y",
\* "n", "ye" as answer; as password "A1aaaaaa", "A1aaaaa" and twelve times "a".
SessionUsernames == {<<49, 49>>, Rep(97, LongUserLen)}

Choices == {<<121>>, <<89>>, <<110>>, <<121, 101>>}

CustomEntries ==
    {<<65, 49>> \o Rep(97, 6), <<65, 49>> \o Rep(97, 5), Rep(97, 12)}

Init ==
    /\ pc = "username"
    /\ \E g \in GarbageBytes :
         /\ username = Garbage(g, UsernameSize)
         /\ default_password = Garbage(g, DefaultSize)
         /\ customPassword = Garbage(g, CustomSize)
         /\ choice = Garbage(g, ChoiceSize)
    /\ out = <<Message("Enter username: ", <<>>)>>
    /\ written = {}
    /\ drawn = <<>>
    /\ ret = NoRet

\* The username arrives; main calls generateDefaultPassword.
ReadUsername ==
    /\ pc = "username"
    /\ \E u \in SessionUsernames : username' = scanf(username, u)
    /\ pc' = "generate"
    /\ UNCHANGED <<default_password, customPassword, choice, out, written,
                   drawn, ret>>

\* generateDefaultPassword has returned: main prints the password and asks.
AskChoice ==
    /\ pc = "generated"
    /\ out' = <<Message("Generating a default password...", <<>>),
                Message("Generated default password: ", Str(default_password)),
                Message("Manually change password? (y/n): ", <<>>)>>
    /\ pc' = "choice"
    /\ UNCHANGED <<username, default_password, customPassword, choice, written,
                   drawn, ret>>

\* The answer arrives.
ReadChoice ==
    /\ pc = "choice"
    /\ \E c \in Choices :
         /\ choice' = scanf(choice, c)
         /\ IF wantsChange(choice')
            THEN pc' = "prompt" /\ out' = out
            ELSE /\ pc' = "done"
                 /\ out' = <<Message("You chose not to change your password.", <<>>)>>
    /\ UNCHANGED <<username, default_password, customPassword, written, drawn, ret>>

\* promptForNewPassword up to its scanf.
Prompt ==
    /\ pc = "prompt"
    /\ out' = <<Message("Enter new password: ", <<>>)>>
    /\ pc' = "password"
    /\ UNCHANGED <<username, default_password, customPassword, choice, written,
                   drawn, ret>>

\* The rest of promptForNewPassword, and main's loop test: the password
\* arrives and isStrongPassword decides, or its scan of the memory behind the
\* buffer faults.
EnterPassword ==
    /\ pc = "password"
    /\ \E p \in CustomEntries :
         /\ customPassword' = scanf(customPassword, p)
         /\ \E o \in isStrongPassword(username, customPassword') :
              /\ ret' = [kind |-> "verdict", isStrongPassword |-> o]
              /\ \/ /\ o = "true"
                    /\ out' = <<Message("Strong password!", <<>>),
                                Message("Successfully created password: ",
                                        Str(customPassword'))>>
                    /\ pc' = "done"
                 \/ /\ o = "false"
                    /\ out' = <<Message("Your password is weak. Try again!", <<>>)>>
                    /\ pc' = "prompt"
                 \/ /\ o = "crash"
                    /\ out' = <<>>
                    /\ pc' = "crashed"
    /\ UNCHANGED <<username, default_password, choice, written, drawn>>

Next ==
    \/ ReadUsername
    \/ Generate
    \/ AskChoice
    \/ ReadChoice
    \/ Prompt
    \/ EnterPassword

Spec == Init /\ [][Next]_vars

(***************************************************************************)
(* The claims about the predicates and the policies, under PredSpec.       *)
(* They are stated on the strings the buffers hold.                        *)
(***************************************************************************)
Evaluated == ret.kind = "predicates"

U == Str(username)

P == Str(customPassword)

HasLetterRun(s, k) ==
    \E i \in 1..(Len(s) - k + 1) : \A d \in 0..(k - 1) : isalpha(s[i + d])

Letters(s) == {i \in 1..Len(s) : isalpha(s[i])}

MatchesAt(u, p, i) == \A j \in 1..Len(u) : tolower(u[j]) = tolower(p[i + j])

Contained(u, p) ==
    /\ Len(u) > 0
    /\ \E i \in 0..(Len(p) - Len(u)) : MatchesAt(u, p, i)

DefaultConditions(p) ==
    /\ Len(p) <= 15
    /\ \E i \in 1..Len(p) : isupper(p[i])
    /\ \E i \in 1..Len(p) : islower(p[i])
    /\ \E i \in 1..Len(p) : isdigit(p[i])
    /\ \A i \in 1..Len(p) : isalnum(p[i])

StrongConditions(u, p) ==
    /\ Len(p) >= 8
    /\ \E i \in 1..Len(p) : isupper(p[i])
    /\ \E i \in 1..Len(p) : islower(p[i])
    /\ \E i \in 1..Len(p) : isdigit(p[i])
    /\ \A i \in 1..Len(p) : isalnum(p[i])
    /\ HasLetterRun(p, 4)
    /\ ~Contained(u, p)

\* C2: isStrongPassword returns true exactly when the password has length
\* >= 8, an uppercase letter, a lowercase letter, a digit, only alphanumeric
\* characters, a run of 4 letters, and does not contain the username
\* case-insensitively.
C2_StrongIffConditions ==
    Evaluated => ((ret.isStrongPassword = "true") <=> StrongConditions(U, P))

\* Username "aaaaaaaaa", password "A1aaaaaa": the seven conditions hold and
\* the call does not return true.
C2_Witness ==
    /\ Evaluated
    /\ U = Rep(97, LongUserLen)
    /\ P = <<65, 49>> \o Rep(97, 6)
    /\ StrongConditions(U, P)
    /\ ret.isStrongPassword # "true"

\* C3: isStrongDefaultPassword returns true exactly when the password has
\* length <= 15, an uppercase letter, a lowercase letter, a digit and only
\* alphanumeric characters, and the username does not change the result.
C3_DefaultIffConditions ==
    Evaluated =>
        /\ ret.isStrongDefaultPassword = DefaultConditions(P)
        /\ ret.isStrongDefaultPasswordEmpty = ret.isStrongDefaultPassword

C3_Witness ==
    /\ Evaluated
    /\ Len(P) = 15
    /\ Len(U) > 0
    /\ ret.isStrongDefaultPassword

\* C4: when the username is longer than the password, containsUsername
\* returns false and reads no password character behind the terminator.
C4_LongUsernameFalseInBounds ==
    (Evaluated /\ Len(U) > Len(P)) =>
        /\ ret.containsUsername = "false"
        /\ ret.hi <= Len(P)

\* Username "aa", password "a": the call reads behind the terminator and
\* does not return false.
C4_Witness ==
    /\ Evaluated
    /\ U = <<97, 97>>
    /\ P = <<97>>
    /\ ret.containsUsername # "false"
    /\ ret.hi > Len(P)

\* C5: when the username is not longer than the password, containsUsername
\* returns true exactly when the username is non-empty and matches the
\* password at some offset in 0..len(password)-len(username) after folding
\* both to lower case; it returns false for the empty username.
C5_ContainsIffWindow ==
    (Evaluated /\ Len(U) <= Len(P)) =>
        /\ ret.containsUsername \in {"true", "false"}
        /\ (ret.containsUsername = "true") <=> Contained(U, P)
        /\ (Len(U) = 0 => ret.containsUsername = "false")
        /\ ret.hi < Len(P)

\* The username matches only in the last window, and only after folding.
C5_Witness ==
    /\ Evaluated
    /\ 0 < Len(U) /\ Len(U) < Len(P)
    /\ ret.containsUsername = "true"
    /\ \A i \in 0..(Len(P) - Len(U) - 1) : ~MatchesAt(U, P, i)
    /\ \E j \in 1..Len(U) : U[j] # P[Len(P) - Len(U) + j]

\* C6: containsString returns true exactly when the password has a run of
\* at least 4 consecutive letters; letters on the two sides of a non-letter
\* are not added together.
C6_ContainsStringIffRun ==
    Evaluated => (ret.containsString = HasLetterRun(P, 4))

\* At least 4 letters, split by a non-letter into runs shorter than 4.
C6_Witness ==
    /\ Evaluated
    /\ Cardinality(Letters(P)) >= 4
    /\ ~ret.containsString

(***************************************************************************)
(* The claims about generateDefaultPassword, under GenSpec.                *)
(***************************************************************************)
D == Str(default_password)

Alphabet == (97..122) \cup (65..90) \cup (48..57)

\* C1: the string generateDefaultPassword leaves in the buffer when it
\* returns is accepted by isStrongDefaultPassword, meets the conditions of
\* the Default policy, and has length 1..15, whatever the username.
C1_ReturnedAccepted ==
    pc = "generated" =>
        /\ isStrongDefaultPassword(username, default_password)
        /\ DefaultConditions(D)
        /\ Len(D) >= 1 /\ Len(D) <= 15

\* Returned for the empty username with a password of the greatest length.
C1_Witness == pc = "generated" /\ Len(U) = 0 /\ Len(D) = 15

\* C8: under a random source that does not avoid accepted candidates for
\* ever the loop ends and the function returns; and as long as the loop
\* runs a rejected pass is possible, so nothing caps the number of passes.
C8_TerminatesUnderFairness ==
    /\ (pc = "generate") ~> (pc = "generated")
    /\ [](pc = "generate" => ENABLED GenerateRejected)

\* Returned after a pass that stored behind the final terminator: a retry.
C8_Witness == pc = "generated" /\ \E k \in written : k > Len(D)

\* C9: after every pass the string in the buffer is exactly the characters
\* drawn in that pass, each of them in a-z, A-Z, 0-9, also when an earlier
\* candidate was longer.
C9_CandidateIsFreshDraws ==
    drawn # <<>> =>
        /\ D = drawn
        /\ \A i \in 1..Len(D) : D[i] \in Alphabet

\* Returned with characters of an earlier, longer candidate left behind the
\* terminator (97 and 48 are drawn characters, not what the buffer held).
C9_Witness ==
    /\ pc = "generated"
    /\ \E k \in (Len(D) + 1)..(DefaultSize - 1) : At(default_password, k) \in {97, 48}

\* C10: all passes together store only to indices 0..15, inside the 16-byte
\* buffer main passes.
C10_WritesInsideBuffer ==
    /\ written \subseteq 0..15
    /\ \A k \in written : InBuffer(default_password, k)

\* Every index of the buffer has been stored to.
C10_Witness == pc = "generated" /\ written = 0..(DefaultSize - 1)

(***************************************************************************)
(* The claim about the session, under Spec.                                *)
(***************************************************************************)
SuccessReported ==
    \E n \in 1..Len(out) : out[n].text = "Successfully created password: "

InPasswordLoop ==
    pc \in {"prompt", "password", "crashed"} \/ ret.kind = "verdict"

\* C7: a custom password is prompted for only after the answer "y" or "Y";
\* a step in which isStrongPassword rejects the entry leads back to the call
\* of promptForNewPassword, whose next step prints the prompt; success is
\* reported only for an entry isStrongPassword accepted, which meets the
\* conditions of the Strong policy for the username read at the start.
C7_PromptLoop ==
    /\ [](InPasswordLoop => Str(choice) \in {<<121>>, <<89>>})
    /\ [][(pc = "password" /\ ret'.isStrongPassword = "false") => pc' = "prompt"]_vars
    /\ [][pc = "prompt" =>
            (pc' = "password" /\ out' = <<Message("Enter new password: ", <<>>)>>)]_vars
    /\ [][pc # "username" => username' = username]_vars
    /\ [](SuccessReported =>
            /\ ret.isStrongPassword = "true"
            /\ StrongConditions(U, P)
            /\ out[Len(out)].arg = P)

\* Success after an earlier, longer entry was rejected: its characters are
\* still behind the terminator (what the buffer held at first is 0 or 65).
C7_Witness ==
    /\ SuccessReported
    /\ \E k \in (Len(P) + 1)..(CustomSize - 1) : At(customPassword, k) = 97

====
